---------------------------- MODULE Spec2Model ----------------------------
(***************************************************************************)
(* Model of src/app.py: a Streamlit script that loads a sales table        *)
(* (uploaded Excel file or a built-in demo table), validates its columns,  *)
(* runs a price simulator (tab 1), derives sales metrics and per-product   *)
(* aggregates (tab 2) and fits a one-variable linear regression over the   *)
(* monthly revenue to predict the next month (tab 3).                      *)
(*                                                                         *)
(* One run of the script is the sequence of steps                          *)
(*   load/validate -> tab1 -> tab2 -> tab3                                 *)
(* and every user interaction re-runs the script from the top.             *)
(*                                                                         *)
(* Conventions.                                                            *)
(*  - A cell of a table is <<>> (a missing value: NaN / None, what         *)
(*    pandas yields for a blank spreadsheet cell) or <<v>>.                *)
(*  - A float is the IEEE-754 double it is: [s, m, e] stands for the       *)
(*    value s * m * 2^e, with s the sign, m an odd natural number of at    *)
(*    most 53 bits (or zero) kept as a sequence of 15-bit limbs, least     *)
(*    significant first.  +, -, * and / round to nearest, ties to even.    *)
(*    Overflow, subnormals, infinities and -0.0 are not modelled.          *)
(*  - LinearRegression is a library, not code of the script.  fit,        *)
(*    predict and score are the specification's Trend Projection: the      *)
(*    closed-form least-squares line on the centred data, its value at     *)
(*    next_month and 1 - SSR/SST, computed in doubles, as the script       *)
(*    holds them, by the steps the library documents (means, centring,     *)
(*    slope, intercept = mean(y) - mean(X) * slope, X * slope +            *)
(*    intercept, sums taken left to right).                                *)
(*  - A real number, in which the properties state the least-squares       *)
(*    values, is a rational [num |-> n, den |-> d] in lowest terms, d > 0. *)
(*  - A string produced by formatting is a sequence of one-character       *)
(*    strings, so that its characters can be inspected.                    *)
(***************************************************************************)
EXTENDS Integers, Sequences, FiniteSets, TLC

VARIABLES
    pc,             \* position of the script
    uploaded_file,  \* value of the file_uploader widget: <<>> or <<table>>
    df_main,        \* the working table [columns, rows]
    rendered,       \* the elements the run has rendered so far
    error_msg,      \* the column list shown by st.error, <<>> if none
    sim,            \* tab 1: inputs and outputs of the price simulator
    df_prod,        \* tab 2: per-product aggregate (set of records)
    kpis,           \* tab 2: the three formatted KPI strings
    df_hist,        \* tab 3: per-month aggregate (sequence sorted by Mes)
    forecast,       \* tab 3: <<>> or <<[next_month, pred_val, venta_estimada,
                    \*           r2, coef, intercept]>>
    valor,          \* argument of a stand-alone fmt_clp call
    texto           \* result of a stand-alone fmt_clp call

vars == <<pc, uploaded_file, df_main, rendered, error_msg, sim, df_prod,
          kpis, df_hist, forecast, valor, texto>>

(***************************************************************************)
(* Bounds of the model.                                                    *)
(***************************************************************************)
\* Longest uploaded table, in rows.
MaxRows == 2
\* Latest month of a monthly series handed to the projection on its own.
MaxMes == 4

(***************************************************************************)
(* Missing values, and the real numbers (rationals) of the properties.     *)
(***************************************************************************)
NaN == <<>>

IsNa(c) == c = <<>>

Abs(x) == IF x < 0 THEN -x ELSE x

RECURSIVE GCD(_, _)
GCD(a, b) == IF b = 0 THEN a ELSE GCD(b, a % b)

Norm(n, d) ==
    LET g == GCD(Abs(n), Abs(d))
        s == IF d < 0 THEN -1 ELSE 1
    IN  [num |-> (s * n) \div g, den |-> (s * d) \div g]

RInt(n) == [num |-> n, den |-> 1]

RAdd(a, b) ==
    LET g == GCD(a.den, b.den)
        l == (a.den \div g) * b.den
    IN  Norm(a.num * (l \div a.den) + b.num * (l \div b.den), l)

RNeg(a) == [num |-> -a.num, den |-> a.den]

RSub(a, b) == RAdd(a, RNeg(b))

RMul(a, b) ==
    LET g1 == GCD(Abs(a.num), b.den)
        g2 == GCD(Abs(b.num), a.den)
    IN  Norm((a.num \div g1) * (b.num \div g2), (a.den \div g2) * (b.den \div g1))

RDiv(a, b) == RMul(a, Norm(b.den, b.num))

RECURSIVE RSum(_)
RSum(s) == IF s = <<>> THEN RInt(0) ELSE RAdd(s[1], RSum(Tail(s)))

RECURSIVE SumSeq(_)
SumSeq(s) == IF s = <<>> THEN 0 ELSE s[1] + SumSeq(Tail(s))

(***************************************************************************)
(* Natural numbers of any size: sequences of limbs in base 2^15, least     *)
(* significant first, with no leading zero limb; <<>> is zero.             *)
(***************************************************************************)
Base == 2^15

LimbBits == 15

\* Significand width of a double.
MantBits == 53

RECURSIVE BNorm(_)
BNorm(a) ==
    IF a = <<>> THEN <<>>
    ELSE IF a[Len(a)] = 0 THEN BNorm(SubSeq(a, 1, Len(a) - 1))
    ELSE a

RECURSIVE BFromInt(_)
BFromInt(n) == IF n = 0 THEN <<>> ELSE <<n % Base>> \o BFromInt(n \div Base)

RECURSIVE BToInt(_)
BToInt(a) == IF a = <<>> THEN 0 ELSE a[1] + Base * BToInt(Tail(a))

RECURSIVE BAddC(_, _, _)
BAddC(a, b, c) ==
    IF a = <<>> /\ b = <<>> THEN (IF c = 0 THEN <<>> ELSE <<c>>)
    ELSE LET x == IF a = <<>> THEN 0 ELSE a[1]
             y == IF b = <<>> THEN 0 ELSE b[1]
             t == x + y + c
         IN  <<t % Base>>
                 \o BAddC(IF a = <<>> THEN <<>> ELSE Tail(a),
                          IF b = <<>> THEN <<>> ELSE Tail(b), t \div Base)

BAdd(a, b) == BAddC(a, b, 0)

RECURSIVE BSubB(_, _, _)
BSubB(a, b, c) ==
    IF a = <<>> THEN <<>>
    ELSE LET y == IF b = <<>> THEN 0 ELSE b[1]
             t == a[1] - y - c
         IN  <<IF t < 0 THEN t + Base ELSE t>>
                 \o BSubB(Tail(a), IF b = <<>> THEN <<>> ELSE Tail(b),
                          IF t < 0 THEN 1 ELSE 0)

\* a - b for a >= b.
BSub(a, b) == BNorm(BSubB(a, b, 0))

\* -1, 0 or 1 as a < b, a = b or a > b.
RECURSIVE BCmp(_, _)
BCmp(a, b) ==
    IF Len(a) # Len(b) THEN (IF Len(a) < Len(b) THEN -1 ELSE 1)
    ELSE IF a = <<>> THEN 0
    ELSE IF a[Len(a)] # b[Len(b)] THEN (IF a[Len(a)] < b[Len(b)] THEN -1 ELSE 1)
    ELSE BCmp(BNorm(SubSeq(a, 1, Len(a) - 1)), BNorm(SubSeq(b, 1, Len(b) - 1)))

RECURSIVE BMulSmallC(_, _, _)
BMulSmallC(a, k, c) ==
    IF a = <<>> THEN (IF c = 0 THEN <<>> ELSE <<c>>)
    ELSE LET t == a[1] * k + c
         IN  <<t % Base>> \o BMulSmallC(Tail(a), k, t \div Base)

\* a * k for 0 <= k < Base.
BMulSmall(a, k) == BNorm(BMulSmallC(a, k, 0))

RECURSIVE BMul(_, _)
BMul(a, b) ==
    IF a = <<>> \/ b = <<>> THEN <<>>
    ELSE BAdd(BMulSmall(a, b[1]), BNorm(<<0>> \o BMul(a, Tail(b))))

\* Quotient and remainder of a by k, 0 < k < Base.
RECURSIVE BDivSmallR(_, _)
BDivSmallR(a, k) ==
    IF a = <<>> THEN [q |-> <<>>, r |-> 0]
    ELSE LET hi == BDivSmallR(Tail(a), k)
             cur == hi.r * Base + a[1]
         IN  [q |-> <<cur \div k>> \o hi.q, r |-> cur % k]

BDivSmall(a, k) ==
    LET d == BDivSmallR(a, k) IN [q |-> BNorm(d.q), r |-> d.r]

RECURSIVE IntBitLen(_)
IntBitLen(n) == IF n = 0 THEN 0 ELSE 1 + IntBitLen(n \div 2)

BitLen(a) ==
    IF a = <<>> THEN 0 ELSE LimbBits * (Len(a) - 1) + IntBitLen(a[Len(a)])

Zeros(n) == [i \in 1..n |-> 0]

\* a * 2^n
BShl(a, n) ==
    IF a = <<>> THEN <<>>
    ELSE Zeros(n \div LimbBits) \o BMulSmall(a, 2^(n % LimbBits))

\* floor(a / 2^n)
BShr(a, n) ==
    IF n \div LimbBits >= Len(a) THEN <<>>
    ELSE BDivSmall(SubSeq(a, (n \div LimbBits) + 1, Len(a)), 2^(n % LimbBits)).q

\* a mod 2^n
BLowBits(a, n) == BSub(a, BShl(BShr(a, n), n))

BIsOdd(a) == a # <<>> /\ a[1] % 2 = 1

(***************************************************************************)
(* Doubles.                                                                *)
(***************************************************************************)
FZero == [s |-> 1, m |-> <<>>, e |-> 0]

\* The representation with an odd significand.
RECURSIVE FCanon(_, _, _)
FCanon(s, m, e) ==
    IF m = <<>> THEN FZero
    ELSE IF m[1] = 0 THEN FCanon(s, Tail(m), e + LimbBits)
    ELSE IF BIsOdd(m) THEN [s |-> s, m |-> m, e |-> e]
    ELSE FCanon(s, BShr(m, 1), e + 1)

\* s * m * 2^e rounded to a double: to nearest, ties to even.
FRound(s, m, e) ==
    IF BitLen(m) <= MantBits THEN FCanon(s, m, e)
    ELSE LET sh == BitLen(m) - MantBits
             q == BShr(m, sh)
             c == BCmp(BLowBits(m, sh), BShl(<<1>>, sh - 1))
             up == c > 0 \/ (c = 0 /\ BIsOdd(q))
         IN  FCanon(s, IF up THEN BAdd(q, <<1>>) ELSE q, e + sh)

\* float(n) of an integer below 2^31 in magnitude: exact.
FFromInt(n) == FCanon(IF n < 0 THEN -1 ELSE 1, BFromInt(Abs(n)), 0)

FNeg(x) == IF x.m = <<>> THEN x ELSE [s |-> -x.s, m |-> x.m, e |-> x.e]

FAdd(x, y) ==
    LET e == IF x.e < y.e THEN x.e ELSE y.e
        mx == BShl(x.m, x.e - e)
        my == BShl(y.m, y.e - e)
        c == BCmp(mx, my)
    IN  IF x.s = y.s THEN FRound(x.s, BAdd(mx, my), e)
        ELSE IF c = 0 THEN FZero
        ELSE IF c > 0 THEN FRound(x.s, BSub(mx, my), e)
        ELSE FRound(y.s, BSub(my, mx), e)

FSub(x, y) == FAdd(x, FNeg(y))

FMul(x, y) == FRound(x.s * y.s, BMul(x.m, y.m), x.e + y.e)

\* The largest d in lo..hi with d * b <= r (0 * b <= r always).
RECURSIVE BDigit(_, _, _, _)
BDigit(r, b, lo, hi) ==
    IF lo = hi THEN lo
    ELSE LET mid == (lo + hi + 1) \div 2
         IN  IF BCmp(BMulSmall(b, mid), r) <= 0
             THEN BDigit(r, b, mid, hi)
             ELSE BDigit(r, b, lo, mid - 1)

\* Quotient and remainder of a by b, b # 0: long division, one limb of the
\* quotient at a time from the most significant.
RECURSIVE BDivMod(_, _)
BDivMod(a, b) ==
    IF a = <<>> THEN [q |-> <<>>, r |-> <<>>]
    ELSE LET h == BDivMod(Tail(a), b)
             r2 == BNorm(<<a[1]>> \o h.r)
             d == BDigit(r2, b, 0, Base - 1)
         IN  [q |-> BNorm(<<d>> \o h.q), r |-> BSub(r2, BMulSmall(b, d))]

\* x / y, y # 0: the quotient of the significands to 56 bits or more plus
\* a sticky bit, then rounded once.
FDiv(x, y) ==
    IF x.m = <<>> THEN FZero
    ELSE LET k == IF BitLen(x.m) >= BitLen(y.m) + 56 THEN 0
                  ELSE BitLen(y.m) + 56 - BitLen(x.m)
             d == BDivMod(BShl(x.m, k), y.m)
             m == BAdd(BShl(d.q, 1), IF d.r = <<>> THEN <<>> ELSE <<1>>)
         IN  FRound(x.s * y.s, m, x.e - y.e - k - 1)

\* x < y
FLess(x, y) == LET d == FSub(x, y) IN d.m # <<>> /\ d.s < 0

\* The sum of a sequence of doubles, left to right.
RECURSIVE FSumN(_, _)
FSumN(s, n) == IF n = 0 THEN FZero ELSE FAdd(FSumN(s, n - 1), s[n])

FSum(s) == FSumN(s, Len(s))

\* The mean of a sequence of doubles: the sum divided by the length.
FMean(s) == FDiv(FSum(s), FFromInt(Len(s)))

(***************************************************************************)
(* fmt_clp (src/app.py 13-17): "${:,.0f}".format(valor).replace(",", ".")  *)
(***************************************************************************)
DigitChars == <<"0", "1", "2", "3", "4", "5", "6", "7", "8", "9">>

\* Decimal digits of a natural number, most significant first.
RECURSIVE Digits(_)
Digits(a) ==
    LET d == BDivSmall(a, 10)
    IN  IF d.q = <<>> THEN <<DigitChars[d.r + 1]>>
        ELSE Append(Digits(d.q), DigitChars[d.r + 1])

\* Precision .0f on the magnitude of a double: the exact value rounded to a
\* whole number, ties to even.
RoundHalfEven(x) ==
    IF x.e >= 0 THEN BShl(x.m, x.e)
    ELSE LET q == BShr(x.m, -x.e)
             c == BCmp(BLowBits(x.m, -x.e), BShl(<<1>>, -x.e - 1))
         IN  IF c > 0 \/ (c = 0 /\ BIsOdd(q)) THEN BAdd(q, <<1>>) ELSE q

\* The "," option: a comma before every group of three digits.
RECURSIVE GroupThousands(_)
GroupThousands(ds) ==
    IF Len(ds) <= 3 THEN ds
    ELSE GroupThousands(SubSeq(ds, 1, Len(ds) - 3))
             \o <<",">> \o SubSeq(ds, Len(ds) - 2, Len(ds))

\* "{:,.0f}".format(x): the sign is that of the argument, also when the
\* magnitude rounds to zero ("-0").
FormatComma0f(x) ==
    (IF x.s < 0 THEN <<"-">> ELSE <<>>) \o GroupThousands(Digits(RoundHalfEven(x)))

\* str.replace(old, new) for one-character old and new.
Replace(s, old, new) == [i \in DOMAIN s |-> IF s[i] = old THEN new ELSE s[i]]

\* The formatting with the replace step forgotten.
fmt_clp_sin_replace(v) ==
    IF IsNa(v) THEN <<"$", "0">> ELSE <<"$">> \o FormatComma0f(v[1])

fmt_clp(v) ==
    IF IsNa(v) THEN <<"$", "0">>
    ELSE Replace(<<"$">> \o FormatComma0f(v[1]), ",", ".")

\* f"{x:,.0f}".replace(",", ".") of the units KPI (src/app.py 123).
fmt_miles(x) == Replace(FormatComma0f(FFromInt(x)), ",", ".")

(***************************************************************************)
(* Tables.  A table is [columns |-> set of names, rows |-> sequence of     *)
(* functions from the column names to cells].                              *)
(***************************************************************************)
req_cols == <<"Producto", "Unidades", "Precio", "Costo", "Mes">>

Range(s) == {s[i] : i \in DOMAIN s}

Fila(p, u, pr, c, m) ==
    [Producto |-> p, Unidades |-> u, Precio |-> pr, Costo |-> c, Mes |-> m]

\* The demo table with every row in month 1.
data_demo_un_mes ==
    [columns |-> Range(req_cols),
     rows |-> << Fila(<<"Polera Básica">>,      <<50>>, <<12990>>, <<6500>>,  <<1>>),
                 Fila(<<"Jeans Denim">>,        <<30>>, <<24990>>, <<12000>>, <<1>>),
                 Fila(<<"Zapatillas Urbanas">>, <<10>>, <<45990>>, <<25000>>, <<1>>),
                 Fila(<<"Jockey">>,             <<80>>, <<8990>>,  <<3500>>,  <<1>>),
                 Fila(<<"Polera Básica">>,      <<65>>, <<12990>>, <<6500>>,  <<1>>),
                 Fila(<<"Jeans Denim">>,        <<45>>, <<24990>>, <<12000>>, <<1>>),
                 Fila(<<"Zapatillas Urbanas">>, <<18>>, <<45990>>, <<25000>>, <<1>>),
                 Fila(<<"Jockey">>,             <<95>>, <<8990>>,  <<3500>>,  <<1>>) >>]

\* data_demo (src/app.py 46-53).
data_demo ==
    [columns |-> Range(req_cols),
     rows |-> << Fila(<<"Polera Básica">>,      <<50>>, <<12990>>, <<6500>>,  <<1>>),
                 Fila(<<"Jeans Denim">>,        <<30>>, <<24990>>, <<12000>>, <<1>>),
                 Fila(<<"Zapatillas Urbanas">>, <<10>>, <<45990>>, <<25000>>, <<1>>),
                 Fila(<<"Jockey">>,             <<80>>, <<8990>>,  <<3500>>,  <<1>>),
                 Fila(<<"Polera Básica">>,      <<65>>, <<12990>>, <<6500>>,  <<2>>),
                 Fila(<<"Jeans Denim">>,        <<45>>, <<24990>>, <<12000>>, <<2>>),
                 Fila(<<"Zapatillas Urbanas">>, <<18>>, <<45990>>, <<25000>>, <<2>>),
                 Fila(<<"Jockey">>,             <<95>>, <<8990>>,  <<3500>>,  <<2>>) >>]

\* all(col in df_main.columns for col in req_cols) (src/app.py 40).
HasAllCols(df) == \A i \in DOMAIN req_cols : req_cols[i] \in df.columns

\* The list the error message shows, were it the absent columns only.
ErrorCols_missing(df) == SelectSeq(req_cols, LAMBDA c : c \notin df.columns)

\* The list interpolated into st.error (src/app.py 41): req_cols itself.
ErrorCols(df) == req_cols

\* Elementwise arithmetic of two columns: a missing operand gives NaN.
Mul(a, b) == IF IsNa(a) \/ IsNa(b) THEN NaN ELSE <<a[1] * b[1]>>

Sub(a, b) == IF IsNa(a) \/ IsNa(b) THEN NaN ELSE <<a[1] - b[1]>>

\* df[a] * df[b] and df[a] - df[b]: one cell per row.
ColMul(df, a, b) == [i \in DOMAIN df.rows |-> Mul(df.rows[i][a], df.rows[i][b])]

ColSub(df, a, b) == [i \in DOMAIN df.rows |-> Sub(df.rows[i][a], df.rows[i][b])]

\* df[name] = col: adds or overwrites column `name`.
SetCol(df, name, col) ==
    [columns |-> df.columns \cup {name},
     rows |-> [i \in DOMAIN df.rows |->
                 [c \in df.columns \cup {name} |->
                     IF c = name THEN col[i] ELSE df.rows[i][c]]]]

\* src/app.py 112-114.
Derive(df) ==
    LET d1 == SetCol(df, "Venta_Total", ColMul(df, "Unidades", "Precio"))
        d2 == SetCol(d1, "Costo_Total", ColMul(d1, "Unidades", "Costo"))
    IN  SetCol(d2, "Utilidad", ColSub(d2, "Venta_Total", "Costo_Total"))

\* Series.sum(): missing values are skipped, an empty sum is 0.
RECURSIVE SumCol(_, _)
SumCol(rows, col) ==
    IF rows = <<>> THEN 0
    ELSE (IF IsNa(rows[1][col]) THEN 0 ELSE rows[1][col][1])
             + SumCol(Tail(rows), col)

\* The keys of groupby(col): the distinct non-missing values (dropna).
GroupKeys(rows, col) ==
    {rows[i][col][1] : i \in {j \in DOMAIN rows : ~IsNa(rows[j][col])}}

GroupRows(rows, col, k) == SelectSeq(rows, LAMBDA r : r[col] = <<k>>)

\* A per-product aggregate that also carries a margin percentage.
GroupByProducto_margen(df) ==
    {[Producto |-> k,
      Venta_Total |-> SumCol(GroupRows(df.rows, "Producto", k), "Venta_Total"),
      Utilidad |-> SumCol(GroupRows(df.rows, "Producto", k), "Utilidad"),
      Unidades |-> SumCol(GroupRows(df.rows, "Producto", k), "Unidades"),
      margin_pct |-> NaN]
        : k \in GroupKeys(df.rows, "Producto")}

\* df_main.groupby('Producto')[[...]].sum().reset_index() (src/app.py 117).
GroupByProducto(df) ==
    {[Producto |-> k,
      Venta_Total |-> SumCol(GroupRows(df.rows, "Producto", k), "Venta_Total"),
      Utilidad |-> SumCol(GroupRows(df.rows, "Producto", k), "Utilidad"),
      Unidades |-> SumCol(GroupRows(df.rows, "Producto", k), "Unidades")]
        : k \in GroupKeys(df.rows, "Producto")}

\* Ascending enumeration of a finite set of integers (groupby sorts keys).
RECURSIVE SortedSeq(_)
SortedSeq(S) ==
    IF S = {} THEN <<>>
    ELSE LET m == CHOOSE x \in S : \A y \in S : x <= y
         IN  <<m>> \o SortedSeq(S \ {m})

\* df_main.groupby('Mes')['Venta_Total'].sum().reset_index() (src/app.py 171).
GroupByMes(df) ==
    LET ks == SortedSeq(GroupKeys(df.rows, "Mes"))
    IN  [i \in DOMAIN ks |->
            [Mes |-> ks[i],
             Venta_Total |-> SumCol(GroupRows(df.rows, "Mes", ks[i]), "Venta_Total")]]

(***************************************************************************)
(* Tab 1: the price simulator (src/app.py 73-93).                          *)
(***************************************************************************)
\* 1 + (pct / 100)
UnoMas(pct) == FAdd(FFromInt(1), FDiv(FFromInt(pct), FFromInt(100)))

SimRecord(costo, margen, impuesto, neto, final) ==
    [costo_unitario |-> costo, margen_deseado |-> margen, impuesto |-> impuesto,
     precio_neto |-> neto,
     precio_final |-> final,
     utilidad_unitaria |-> FSub(neto, FFromInt(costo)),
     impuesto_valor |-> FSub(final, neto),
     metric_precio_final |-> fmt_clp(<<final>>),
     metric_utilidad |-> fmt_clp(<<FSub(neto, FFromInt(costo))>>),
     df_precio |-> <<FFromInt(costo), FSub(neto, FFromInt(costo)), FSub(final, neto)>>]

\* The simulator with the tax applied to the cost instead of the net price.
Simular_impuesto_sobre_costo(costo, margen, impuesto) ==
    SimRecord(costo, margen, impuesto,
              FMul(FFromInt(costo), UnoMas(margen)),
              FMul(FFromInt(costo), UnoMas(impuesto)))

\* src/app.py 80-93.
Simular(costo, margen, impuesto) ==
    LET precio_neto == FMul(FFromInt(costo), UnoMas(margen))
        precio_final == FMul(precio_neto, UnoMas(impuesto))
    IN  SimRecord(costo, margen, impuesto, precio_neto, precio_final)

(***************************************************************************)
(* Tab 3: LinearRegression over the monthly aggregate (src/app.py 173-212).*)
(* X is the sequence of months, y the sequence of monthly revenues.        *)
(***************************************************************************)
\* A column of integers as float64.
AsFloat(v) == [i \in DOMAIN v |-> FFromInt(v[i])]

\* A column minus its offset.
Centre(v, offset) == [i \in DOMAIN v |-> FSub(v[i], offset)]

\* sum(a * b), the products summed left to right.
Dot(a, b) == FSum([i \in DOMAIN a |-> FMul(a[i], b[i])])

\* The slope of the centred data: sum(xc * yc) / sum(xc * xc).
Coef(xc, yc) == FDiv(Dot(xc, yc), Dot(xc, xc))

\* The fitted model: intercept = mean(y) - mean(X) * slope.
Fitted(X_offset, y_offset, coef) ==
    [coef |-> coef, intercept |-> FSub(y_offset, FMul(X_offset, coef))]

\* The fit of float64 columns with the given means.
FitOffsets(Xf, yf, X_offset, y_offset) ==
    Fitted(X_offset, y_offset, Coef(Centre(Xf, X_offset), Centre(yf, y_offset)))

\* LinearRegression().fit(X, y): the closed-form two-parameter fit of the
\* specification on the centred data, in doubles: the slope is
\* sum(xc * yc) / sum(xc * xc), the intercept mean(y) - mean(X) * slope.
Fit(X, y) == FitOffsets(AsFloat(X), AsFloat(y), FMean(AsFloat(X)), FMean(AsFloat(y)))

\* model.predict([[x]])[0]: x * slope + intercept, in doubles.
Predict(model, x) == FAdd(FMul(FFromInt(x), model.coef), model.intercept)

\* y minus the prediction at X, point by point.
Residuals(model, X, yf) == [i \in DOMAIN X |-> FSub(yf[i], Predict(model, X[i]))]

\* 1 - u/v in doubles; 1.0 when u is zero; with a zero v and a non-zero u
\* (which no fitted line gives) the specification has not-a-number.
R2(u, v) ==
    IF u = FZero THEN FFromInt(1)
    ELSE IF v = FZero THEN NaN
    ELSE FSub(FFromInt(1), FDiv(u, v))

\* The total sum of squares of a float64 column with the given mean.
TotalSS(yf, y_mean) == Dot(Centre(yf, y_mean), Centre(yf, y_mean))

\* The sum of the squares of a float64 column.
SumSq(res) == Dot(res, res)

\* model.score(X, y): R^2 = 1 - u/v, with u the sum of squared residuals
\* and v the total sum of squares.
Score(model, X, y) ==
    R2(SumSq(Residuals(model, X, AsFloat(y))),
       TotalSS(AsFloat(y), FMean(AsFloat(y))))

MaxOf(s) == CHOOSE m \in Range(s) : \A x \in Range(s) : x <= m

\* The guard with the threshold off by one.
FewMonths_tres(hist) == Len(hist) < 3

\* len(df_hist) < 2 (src/app.py 173).
FewMonths(hist) == Len(hist) < 2

\* The next month taken to be the last month itself.
NextMonth_sin_incremento(hist) == MaxOf([i \in DOMAIN hist |-> hist[i].Mes])

\* df_hist['Mes'].max() + 1 (src/app.py 184).
NextMonth(hist) == MaxOf([i \in DOMAIN hist |-> hist[i].Mes]) + 1

\* X = df_hist[['Mes']] and y = df_hist['Venta_Total'] (src/app.py 176-177).
Meses(hist) == [i \in DOMAIN hist |-> hist[i].Mes]

Ventas(hist) == [i \in DOMAIN hist |-> hist[i].Venta_Total]

\* The values the else branch holds and shows (src/app.py 184-194).
ForecastRow(model, next_month, pred_val, r2) ==
    [next_month |-> next_month,
     pred_val |-> pred_val,
     venta_estimada |-> fmt_clp(<<pred_val>>),
     r2 |-> r2,
     coef |-> model.coef,
     intercept |-> model.intercept]

\* The forecast of a fitted model (src/app.py 184-194).
ForecastOf(model, hist, next_month) ==
    ForecastRow(model, next_month, Predict(model, next_month),
                Score(model, Meses(hist), Ventas(hist)))

\* src/app.py 176-194: the forecast of a series of at least two months.
Forecast(hist) == ForecastOf(Fit(Meses(hist), Ventas(hist)), hist, NextMonth(hist))

\* What the else branch renders (src/app.py 188-212).
ForecastRendered(f) ==
    {"info_prediccion", "metric_venta_estimada", "texto_r2", "line_tendencia"}
        \cup (IF FLess(f.r2, FDiv(FFromInt(1), FFromInt(2)))
              THEN {"caption_baja_precision"} ELSE {})

(***************************************************************************)
(* Inputs.                                                                 *)
(***************************************************************************)
SeqsUpTo(S, n) == UNION {[1..k -> S] : k \in 0..n}

\* A column that is not required.
ExtraCol == "Notas"

WithExtra(r) == [c \in DOMAIN r \cup {ExtraCol} |-> IF c = ExtraCol THEN <<"x">> ELSE r[c]]

\* Rows of the uploads of the full runs: one product, months 1..3 or blank.
FilasSimples ==
    {Fila(<<"A">>, u, <<10>>, <<4>>, m) : u \in {<<1>>, <<2>>},
                                          m \in {<<1>>, <<2>>, <<3>>, NaN}}

\* Rows of the uploads that exercise the derivation: product labels that
\* differ in case only, blank cells, rows with no unit sold.
FilasDatos ==
    {Fila(p, u, <<10>>, c, m) : p \in {<<"A">>, <<"a">>, NaN},
                                u \in {<<0>>, <<2>>},
                                c \in {<<4>>, NaN},
                                m \in {<<1>>, <<2>>, NaN}}

\* Well-formed uploads over a set of rows.
Validos(filas) ==
    {[columns |-> Range(req_cols), rows |-> rs] : rs \in SeqsUpTo(filas, MaxRows)}

\* The same uploads with a column that is not required.
ConExtra(files) ==
    {[columns |-> f.columns \cup {ExtraCol},
      rows |-> [i \in DOMAIN f.rows |-> WithExtra(f.rows[i])]] : f \in files}

\* Uploads that lack at least one required column, with no row or one row.
Invalidos ==
    LET colsets == {cs \in SUBSET (Range(req_cols) \cup {ExtraCol}) :
                       ~(Range(req_cols) \subseteq cs)}
        fila(cs) == [c \in cs |-> IF c \in {"Producto", ExtraCol} THEN <<"A">> ELSE <<1>>]
    IN  {[columns |-> cs, rows |-> <<>>] : cs \in colsets}
            \cup {[columns |-> cs, rows |-> <<fila(cs)>>] : cs \in colsets}

Archivos == Validos(FilasSimples) \cup ConExtra(Validos(FilasSimples)) \cup Invalidos

ArchivosDatos == Validos(FilasDatos)

\* Values the three simulator widgets take; their defaults are 5000, 30
\* and 19.0 (src/app.py 73-75).
CostoVals == {0, 9, 25, 5000}

MargenVals == {0, 30, 100}

ImpuestoVals == {0, 19, 150}

\* Monthly revenues of a series handed to the projection on its own.
VentaVals == {0, 1000, 2000}

\* Every monthly series over the months 1..MaxMes, sorted by month.
Historicos ==
    LET serie(f) ==
            LET ks == SortedSeq(DOMAIN f)
            IN  [i \in DOMAIN ks |-> [Mes |-> ks[i], Venta_Total |-> f[ks[i]]]]
    IN  {serie(f) : f \in UNION {[M -> VentaVals] : M \in SUBSET (1..MaxMes)}}

\* Amounts handed to fmt_clp on its own: whole amounts around the digit
\* group boundaries, of both signs, with every quarter fraction, and NaN.
Montos ==
    {0, 1, 2, 9, 10, 99, 100, 999, 1000, 1500, 9999, 10000, 12345, 99999,
     100000, 999999, 1000000, 1234567}

Valores ==
    {NaN} \cup {<<FCanon(sg, BFromInt(4 * a + f), -2)>> :
                 a \in Montos, f \in 0..3, sg \in {-1, 1}}

(***************************************************************************)
(* The script.                                                             *)
(***************************************************************************)
EmptyDf == [columns |-> {}, rows |-> <<>>]

Init ==
    /\ pc = "start"
    /\ uploaded_file = NaN
    /\ df_main = EmptyDf
    /\ rendered = {}
    /\ error_msg = <<>>
    /\ sim = NaN
    /\ df_prod = {}
    /\ kpis = NaN
    /\ df_hist = <<>>
    /\ forecast = NaN
    /\ valor = NaN
    /\ texto = <<>>

\* src/app.py 34-42: a file was uploaded.
LoadUploaded(files) ==
    /\ pc = "start"
    /\ \E f \in files :
          /\ uploaded_file' = <<f>>
          /\ df_main' = f
          /\ IF ~HasAllCols(f)
             THEN /\ rendered' = rendered \cup {"sidebar_success", "error"}
                  /\ error_msg' = ErrorCols(f)
                  /\ pc' = "stopped"
             ELSE /\ rendered' = rendered \cup {"sidebar_success"}
                  /\ error_msg' = error_msg
                  /\ pc' = "tab1"
    /\ UNCHANGED <<sim, df_prod, kpis, df_hist, forecast, valor, texto>>

\* src/app.py 43-53: no file, the demo table.
LoadDemo ==
    /\ pc = "start"
    /\ uploaded_file' = NaN
    /\ df_main' = data_demo
    /\ rendered' = rendered \cup {"sidebar_info"}
    /\ pc' = "tab1"
    /\ UNCHANGED <<error_msg, sim, df_prod, kpis, df_hist, forecast, valor, texto>>

\* src/app.py 58-103: title, tabs and the price simulator.
Tab1(costos, margenes, impuestos) ==
    /\ pc = "tab1"
    /\ \E costo \in costos, margen \in margenes, impuesto \in impuestos :
          sim' = <<Simular(costo, margen, impuesto)>>
    /\ rendered' = rendered \cup {"title", "metric_precio_final",
                                  "metric_utilidad_unidad", "pie_precio"}
    /\ pc' = "tab2"
    /\ UNCHANGED <<uploaded_file, df_main, error_msg, df_prod, kpis, df_hist,
                   forecast, valor, texto>>

\* src/app.py 108-162: derived columns, per-product aggregate, KPIs, charts
\* and the detail table.
Tab2 ==
    /\ pc = "tab2"
    /\ df_main' = Derive(df_main)
    /\ df_prod' = GroupByProducto(df_main')
    /\ kpis' = <<[ventas |-> fmt_clp(<<FFromInt(SumCol(df_main'.rows, "Venta_Total"))>>),
                  utilidad |-> fmt_clp(<<FFromInt(SumCol(df_main'.rows, "Utilidad"))>>),
                  unidades |-> fmt_miles(SumCol(df_main'.rows, "Unidades"))]>>
    /\ rendered' = rendered \cup {"kpi_ventas", "kpi_utilidad", "kpi_unidades",
                                  "bar_productos", "pie_ganancias", "tabla_detalle"}
    /\ pc' = "tab3"
    /\ UNCHANGED <<uploaded_file, error_msg, sim, df_hist, forecast, valor, texto>>

\* src/app.py 173-212 on a monthly aggregate: warning or forecast.
Proyeccion(hist) ==
    IF FewMonths(hist)
    THEN /\ df_hist' = hist
         /\ forecast' = NaN
         /\ rendered' = rendered \cup {"warning_meses"}
    ELSE /\ df_hist' = [i \in DOMAIN hist |->
                          [Mes |-> hist[i].Mes, Venta_Total |-> hist[i].Venta_Total,
                           Tipo |-> "Real"]]
         /\ forecast' = <<Forecast(hist)>>
         /\ rendered' = rendered \cup ForecastRendered(Forecast(hist))

\* src/app.py 167-212.
Tab3 ==
    /\ pc = "tab3"
    /\ Proyeccion(GroupByMes(df_main))
    /\ pc' = "done"
    /\ UNCHANGED <<uploaded_file, df_main, error_msg, sim, df_prod, kpis, valor, texto>>

\* Any interaction re-runs the script from the top; nothing outlives a run.
Rerun ==
    /\ pc \in {"done", "stopped"}
    /\ pc' = "start"
    /\ uploaded_file' = NaN
    /\ df_main' = EmptyDf
    /\ rendered' = {}
    /\ error_msg' = <<>>
    /\ sim' = NaN
    /\ df_prod' = {}
    /\ kpis' = NaN
    /\ df_hist' = <<>>
    /\ forecast' = NaN
    /\ UNCHANGED <<valor, texto>>

Next ==
    \/ LoadUploaded(Archivos)
    \/ LoadDemo
    \/ Tab1(CostoVals, MargenVals, ImpuestoVals)
    \/ Tab2
    \/ Tab3
    \/ Rerun

\* Full runs: every upload shape, every simulator input.
Spec == Init /\ [][Next]_vars

NextDatos ==
    \/ LoadUploaded(ArchivosDatos)
    \/ LoadDemo
    \/ Tab1({5000}, {30}, {19})
    \/ Tab2
    \/ Tab3
    \/ Rerun

\* Full runs over the richer tables, the simulator left at its defaults.
SpecDatos == Init /\ [][NextDatos]_vars

\* The projection applied to a monthly series of its own.
InitFit ==
    /\ pc = "tab3_hist"
    /\ df_hist \in Historicos
    /\ uploaded_file = NaN
    /\ df_main = EmptyDf
    /\ rendered = {}
    /\ error_msg = <<>>
    /\ sim = NaN
    /\ df_prod = {}
    /\ kpis = NaN
    /\ forecast = NaN
    /\ valor = NaN
    /\ texto = <<>>

Proyectar ==
    /\ pc = "tab3_hist"
    /\ Proyeccion(df_hist)
    /\ pc' = "done"
    /\ UNCHANGED <<uploaded_file, df_main, error_msg, sim, df_prod, kpis, valor, texto>>

NextFit == Proyectar

SpecFit == InitFit /\ [][NextFit]_vars

\* fmt_clp applied to an amount of its own.
InitFmt ==
    /\ pc = "fmt"
    /\ valor \in Valores
    /\ texto = <<>>
    /\ uploaded_file = NaN
    /\ df_main = EmptyDf
    /\ rendered = {}
    /\ error_msg = <<>>
    /\ sim = NaN
    /\ df_prod = {}
    /\ kpis = NaN
    /\ df_hist = <<>>
    /\ forecast = NaN

Formatear ==
    /\ pc = "fmt"
    /\ texto' = fmt_clp(valor)
    /\ pc' = "fmt_done"
    /\ UNCHANGED <<uploaded_file, df_main, rendered, error_msg, sim, df_prod, kpis,
                   df_hist, forecast, valor>>

NextFmt == Formatear

SpecFmt == InitFmt /\ [][NextFmt]_vars

(***************************************************************************)
(* Properties.                                                             *)
(***************************************************************************)
Uploaded == ~IsNa(uploaded_file)

Derived == pc \in {"tab3", "done"}

DashboardElements ==
    {"title", "metric_precio_final", "metric_utilidad_unidad", "pie_precio",
     "kpi_ventas", "kpi_utilidad", "kpi_unidades", "bar_productos",
     "pie_ganancias", "tabla_detalle"}

ForecastElements ==
    {"info_prediccion", "metric_venta_estimada", "texto_r2", "line_tendencia",
     "caption_baja_precision"}

RECURSIVE SumField(_, _)
SumField(S, fld) ==
    IF S = {} THEN 0
    ELSE LET e == CHOOSE x \in S : TRUE
         IN  e[fld] + SumField(S \ {e}, fld)

\* C1: an upload lacking a required column ends in the missing-columns
\* error with the run stopped, nothing derived, nothing of the dashboard,
\* the simulator or the forecast rendered and no element that presents the
\* table as accepted; an upload with the five columns never shows the error.
C1_MissingColumnsStop ==
    (Uploaded /\ pc # "start") =>
        IF ~HasAllCols(uploaded_file[1])
        THEN /\ pc = "stopped"
             /\ "error" \in rendered
             /\ IsNa(sim) /\ IsNa(kpis) /\ IsNa(forecast)
             /\ df_prod = {} /\ df_hist = <<>>
             /\ rendered \cap (DashboardElements \cup ForecastElements) = {}
             /\ "sidebar_success" \notin rendered
        ELSE /\ pc # "stopped"
             /\ "error" \notin rendered

\* C1, the part the script satisfies: stop, error, nothing derived or drawn.
C1_StopsWithoutDashboard ==
    (Uploaded /\ pc # "start") =>
        IF ~HasAllCols(uploaded_file[1])
        THEN /\ pc = "stopped"
             /\ "error" \in rendered
             /\ IsNa(sim) /\ IsNa(kpis) /\ IsNa(forecast)
             /\ df_prod = {} /\ df_hist = <<>>
             /\ rendered \cap (DashboardElements \cup ForecastElements) = {}
        ELSE /\ pc # "stopped"
             /\ "error" \notin rendered

MesesDistintos == GroupKeys(df_main.rows, "Mes")

\* C2: at the end of a run a forecast exists iff the monthly aggregate has
\* at least two distinct months; with fewer there is the warning, no
\* forecast, and the simulator and the whole dashboard are still produced.
C2_ForecastIffTwoMonths ==
    pc = "done" =>
        LET n == Cardinality({df_hist[i].Mes : i \in DOMAIN df_hist})
        IN  /\ n = Len(df_hist)
            /\ n = Cardinality(MesesDistintos)
            /\ ~IsNa(forecast) <=> n >= 2
            /\ "warning_meses" \in rendered <=> n < 2
            /\ n >= 2 => ForecastRendered(forecast[1]) \subseteq rendered
            /\ n < 2 => rendered \cap ForecastElements = {}
            /\ "error" \notin rendered
            /\ DashboardElements \subseteq rendered
            /\ ~IsNa(sim) /\ ~IsNa(kpis)
            /\ df_prod = GroupByProducto(df_main)
            /\ {"Venta_Total", "Costo_Total", "Utilidad"} \subseteq df_main.columns

\* C2 witness: an uploaded table with rows but a single month ran to the
\* end with the warning and the dashboard.
C2_Witness ==
    /\ pc = "done" /\ Uploaded
    /\ Len(df_main.rows) = 2
    /\ Cardinality(MesesDistintos) = 1
    /\ "warning_meses" \in rendered
    /\ "kpi_ventas" \in rendered

\* C3: with no upload the table is the 8-row demo table with the five
\* columns and exactly the months 1 and 2; the run never stops on the
\* missing-columns error, never warns about too few months, and ends with
\* a forecast for month 3.
C3_DemoRun ==
    (~Uploaded /\ pc # "start") =>
        /\ Len(df_main.rows) = 8
        /\ Range(req_cols) \subseteq df_main.columns
        /\ MesesDistintos = {1, 2}
        /\ pc # "stopped"
        /\ "error" \notin rendered
        /\ "warning_meses" \notin rendered
        /\ pc = "done" => (~IsNa(forecast) /\ forecast[1].next_month = 3)

\* C3 witness: a demo run reached its end with a forecast.
C3_Witness ==
    /\ pc = "done" /\ ~Uploaded
    /\ "sidebar_info" \in rendered
    /\ ~IsNa(forecast)
    /\ forecast[1].venta_estimada =
           <<"$", "4", ".", "7", "2", "3", ".", "2", "4", "0">>

\* C4: after derivation every row has Venta_Total = Unidades x Precio,
\* Costo_Total = Unidades x Costo and Utilidad = Venta_Total - Costo_Total,
\* no row is dropped, and for a table with at least one row
\* sum(Utilidad) = sum(Venta_Total) - sum(Costo_Total).
C4_ProfitIdentity ==
    (Derived /\ Uploaded) =>
        LET src == uploaded_file[1].rows
            rows == df_main.rows
        IN  /\ Len(rows) = Len(src)
            /\ \A i \in DOMAIN rows :
                  /\ rows[i].Venta_Total = Mul(src[i].Unidades, src[i].Precio)
                  /\ rows[i].Costo_Total = Mul(src[i].Unidades, src[i].Costo)
                  /\ rows[i].Utilidad = Sub(rows[i].Venta_Total, rows[i].Costo_Total)
            /\ Len(rows) >= 1 =>
                  SumCol(rows, "Utilidad")
                      = SumCol(rows, "Venta_Total") - SumCol(rows, "Costo_Total")

\* C4, the part the script satisfies: the row-wise columns, no row dropped.
C4_RowWise ==
    (Derived /\ Uploaded) =>
        LET src == uploaded_file[1].rows
            rows == df_main.rows
        IN  /\ Len(rows) = Len(src)
            /\ \A i \in DOMAIN rows :
                  /\ rows[i].Venta_Total = Mul(src[i].Unidades, src[i].Precio)
                  /\ rows[i].Costo_Total = Mul(src[i].Unidades, src[i].Costo)
                  /\ rows[i].Utilidad = Sub(rows[i].Venta_Total, rows[i].Costo_Total)

NoBlank(rows, cols) == \A i \in DOMAIN rows : \A c \in cols : ~IsNa(rows[i][c])

\* C4 on tables with no blank Unidades, Precio or Costo cell: the totals agree.
C4_IdentityWithoutBlanks ==
    (Derived /\ NoBlank(df_main.rows, {"Unidades", "Precio", "Costo"})) =>
        SumCol(df_main.rows, "Utilidad")
            = SumCol(df_main.rows, "Venta_Total") - SumCol(df_main.rows, "Costo_Total")

\* C5: grouping partitions the rows: each product key labels one group,
\* every row belongs to exactly one product group and one month group, and
\* the per-product sums of Venta_Total, Utilidad and Unidades and the
\* per-month sums of Venta_Total add up to the sums over all rows.
C5_GroupingPartition ==
    pc = "done" =>
        LET rows == df_main.rows
            hist == {df_hist[i] : i \in DOMAIN df_hist}
        IN  /\ Cardinality({p.Producto : p \in df_prod}) = Cardinality(df_prod)
            /\ \A i \in DOMAIN rows :
                  /\ Cardinality({p \in df_prod : <<p.Producto>> = rows[i].Producto}) = 1
                  /\ Cardinality({h \in hist : <<h.Mes>> = rows[i].Mes}) = 1
            /\ SumField(df_prod, "Venta_Total") = SumCol(rows, "Venta_Total")
            /\ SumField(df_prod, "Utilidad") = SumCol(rows, "Utilidad")
            /\ SumField(df_prod, "Unidades") = SumCol(rows, "Unidades")
            /\ SumField(hist, "Venta_Total") = SumCol(rows, "Venta_Total")

\* C5 on tables with no blank Producto or Mes cell: the partition holds.
C5_PartitionWithoutBlankKeys ==
    (pc = "done" /\ NoBlank(df_main.rows, {"Producto", "Mes"})) =>
        LET rows == df_main.rows
            hist == {df_hist[i] : i \in DOMAIN df_hist}
        IN  /\ Cardinality({p.Producto : p \in df_prod}) = Cardinality(df_prod)
            /\ \A i \in DOMAIN rows :
                  /\ Cardinality({p \in df_prod : <<p.Producto>> = rows[i].Producto}) = 1
                  /\ Cardinality({h \in hist : <<h.Mes>> = rows[i].Mes}) = 1
            /\ SumField(df_prod, "Venta_Total") = SumCol(rows, "Venta_Total")
            /\ SumField(df_prod, "Utilidad") = SumCol(rows, "Utilidad")
            /\ SumField(df_prod, "Unidades") = SumCol(rows, "Unidades")
            /\ SumField(hist, "Venta_Total") = SumCol(rows, "Venta_Total")

\* C4 witness: a table with a blank Costo cell went through derivation.
C4_Witness ==
    /\ Derived /\ Uploaded
    /\ Len(df_main.rows) = 1
    /\ IsNa(df_main.rows[1].Costo)
    /\ df_main.rows[1].Venta_Total = <<20>>

\* C5 witness: two rows whose product labels differ in case only were
\* aggregated as two products.
C5_Witness ==
    /\ pc = "done"
    /\ Len(df_main.rows) = 2
    /\ df_main.rows[1].Producto = <<"A">>
    /\ df_main.rows[2].Producto = <<"a">>
    /\ Cardinality(df_prod) = 2

HistX == [i \in DOMAIN df_hist |-> df_hist[i].Mes]

HistY == [i \in DOMAIN df_hist |-> df_hist[i].Venta_Total]

\* The least-squares line of the monthly series as real numbers, by the
\* normal equations: slope = (n Sxy - Sx Sy) / (n Sxx - Sx^2),
\* intercept = (Sy - slope Sx) / n.
Pendiente ==
    LET n == Len(df_hist)
        Sx == SumSeq(HistX)
        Sy == SumSeq(HistY)
        Sxy == SumSeq([i \in DOMAIN df_hist |-> HistX[i] * HistY[i]])
        Sxx == SumSeq([i \in DOMAIN df_hist |-> HistX[i] * HistX[i]])
    IN  Norm(n * Sxy - Sx * Sy, n * Sxx - Sx * Sx)

Ordenada ==
    RDiv(RSub(RInt(SumSeq(HistY)), RMul(Pendiente, RInt(SumSeq(HistX)))),
         RInt(Len(df_hist)))

\* The value of the least-squares line at x.
Recta(x) == RAdd(RMul(Pendiente, RInt(x)), Ordenada)

\* Residual of the least-squares line at the i-th monthly point.
Residuo(i) == RSub(RInt(HistY[i]), Recta(HistX[i]))

\* Sum of the squared residuals of the least-squares line.
SSR == RSum([i \in DOMAIN df_hist |-> RMul(Residuo(i), Residuo(i))])

\* Total sum of squares of the monthly revenues: sum(y^2) - sum(y)^2 / n.
SST ==
    RSub(RInt(SumSeq([i \in DOMAIN df_hist |-> HistY[i] * HistY[i]])),
         Norm(SumSeq(HistY) * SumSeq(HistY), Len(df_hist)))

\* The size of the data: (1 + the largest revenue) x the month forecast.
Escala(next_month) ==
    RInt((1 + MaxOf([i \in DOMAIN df_hist |-> Abs(HistY[i])])) * next_month)

\* The double x agrees with the real number q to 40 bits relative to the
\* size t >= 0: |x - q| <= t / 2^40.
Within(x, q, t) ==
    LET sh == IF x.e < 0 THEN -x.e ELSE 0
        xs == BMul(BShl(x.m, x.e + sh), BFromInt(q.den))
        qs == BShl(BFromInt(Abs(q.num)), sh)
        mismo == xs = <<>> \/ qs = <<>> \/ (x.s < 0 <=> q.num < 0)
        diff == IF ~mismo THEN BAdd(xs, qs)
                ELSE IF BCmp(xs, qs) >= 0 THEN BSub(xs, qs) ELSE BSub(qs, xs)
    IN  BCmp(BShl(BMul(diff, BFromInt(t.den)), 40),
             BShl(BMul(BFromInt(t.num), BFromInt(q.den)), sh)) <= 0

DosPuntos ==
    <<[Mes |-> 1, Venta_Total |-> 1000, Tipo |-> "Real"],
      [Mes |-> 2, Venta_Total |-> 2000, Tipo |-> "Real"]>>

DigitVal(ch) == CHOOSE d \in 0..9 : DigitChars[d + 1] = ch

RECURSIVE ParseNat(_)
ParseNat(ds) ==
    IF ds = <<>> THEN 0
    ELSE 10 * ParseNat(SubSeq(ds, 1, Len(ds) - 1)) + DigitVal(ds[Len(ds)])

\* C7: fmt_clp of a missing amount is "$0"; of any other amount it is "$",
\* a minus sign for a negative amount, and the amount rounded to a whole
\* number (off by at most one half) written in decimal with a period before
\* every group of three digits, no comma and no other character;
\* fmt_clp(1500) = "$1.500" and fmt_clp(0) = "$0".
C7_FmtClp ==
    pc = "fmt_done" =>
        IF IsNa(valor) THEN texto = <<"$", "0">>
        ELSE LET q == valor[1]
                 neg == q.s < 0
                 cuartos == BToInt(BShl(q.m, q.e + 2))
                 body == SubSeq(texto, IF neg THEN 3 ELSE 2, Len(texto))
                 n == Len(body)
                 digits == SelectSeq(body, LAMBDA ch : ch # ".")
             IN  /\ texto[1] = "$"
                 /\ neg => texto[2] = "-"
                 /\ n >= 1
                 /\ \A i \in 1..n :
                       IF (n - i) % 4 = 3 THEN body[i] = "."
                       ELSE body[i] \in Range(DigitChars)
                 /\ body[1] # "."
                 /\ body[1] = "0" => n = 1
                 /\ \A i \in DOMAIN texto : texto[i] # ","
                 /\ Abs(4 * ParseNat(digits) - cuartos) <= 2
                 /\ q = FFromInt(1500) => texto = <<"$", "1", ".", "5", "0", "0">>
                 /\ q = FFromInt(0) => texto = <<"$", "0">>

\* C7 witness: fmt_clp was applied to 1500.
C7_Witness ==
    /\ pc = "fmt_done"
    /\ valor = <<FFromInt(1500)>>
    /\ texto = <<"$", "1", ".", "5", "0", "0">>

\* C8 as stated: when validation fails the error names exactly the
\* required columns that are absent from the table.
C8_ErrorNamesMissing ==
    pc = "stopped" =>
        /\ "error" \in rendered
        /\ Range(error_msg) = Range(req_cols) \ df_main.columns

\* C8 as amended: when validation fails the error shows the whole list of
\* required columns, whichever of them are absent; it is shown only then.
C8_ErrorListsRequired ==
    /\ pc = "stopped" =>
          /\ ~HasAllCols(df_main)
          /\ "error" \in rendered
          /\ error_msg = req_cols
    /\ pc # "stopped" => (error_msg = <<>> /\ "error" \notin rendered)

\* C8 witness: a table with every required column but Costo was rejected.
C8_Witness ==
    /\ pc = "stopped"
    /\ df_main.columns = Range(req_cols) \ {"Costo"}
    /\ "error" \in rendered
    /\ "Producto" \in Range(error_msg)

\* C9 as stated: every per-product aggregate carries margin_pct =
\* summed Utilidad / summed Venta_Total x 100, not-a-number when the
\* summed Venta_Total is 0.
C9_MarginPct ==
    Derived =>
        \A p \in df_prod :
            /\ "margin_pct" \in DOMAIN p
            /\ IF p.Venta_Total = 0 THEN IsNa(p.margin_pct)
               ELSE p.margin_pct = <<Norm(100 * p.Utilidad, p.Venta_Total)>>

\* C9 as amended: every per-product aggregate carries exactly the product
\* key and the sums of Venta_Total, Utilidad and Unidades over the rows of
\* that product; no margin percentage is computed, also for a product whose
\* summed Venta_Total is 0.
C9_AggregateFields ==
    Derived =>
        /\ {p.Producto : p \in df_prod} = GroupKeys(df_main.rows, "Producto")
        /\ \A p \in df_prod :
              LET idx == {i \in DOMAIN df_main.rows :
                             df_main.rows[i].Producto = <<p.Producto>>}
                  tot(col) == SumField({[i |-> i, v |-> df_main.rows[i][col][1]] :
                                  i \in {j \in idx : ~IsNa(df_main.rows[j][col])}}, "v")
              IN  /\ DOMAIN p = {"Producto", "Venta_Total", "Utilidad", "Unidades"}
                  /\ p.Venta_Total = tot("Venta_Total")
                  /\ p.Utilidad = tot("Utilidad")
                  /\ p.Unidades = tot("Unidades")

\* C9 witness: a product whose summed Venta_Total is 0 was aggregated.
C9_Witness ==
    /\ Derived
    /\ \E p \in df_prod : p.Venta_Total = 0 /\ p.Unidades = 0

\* The table the run loaded.
Loaded == IF Uploaded THEN uploaded_file[1] ELSE data_demo

\* A non-negative double x is within 2^-k, relatively, of n / d.
Cerca(x, n, d, k) ==
    LET sh == IF x.e < 0 THEN -x.e ELSE 0
        xs == BMulSmall(BShl(x.m, IF x.e > 0 THEN x.e ELSE 0), d)
        ns == BShl(BFromInt(n), sh)
        diff == IF BCmp(xs, ns) >= 0 THEN BSub(xs, ns) ELSE BSub(ns, xs)
    IN  x.s = 1 /\ BCmp(BShl(diff, k), ns) <= 0

\* Two non-negative doubles are within 2^-k, relatively, of each other.
CercaF(x, y, k) ==
    LET e == IF x.e < y.e THEN x.e ELSE y.e
        mx == BShl(x.m, x.e - e)
        my == BShl(y.m, y.e - e)
        diff == IF BCmp(mx, my) >= 0 THEN BSub(mx, my) ELSE BSub(my, mx)
    IN  x.s = 1 /\ y.s = 1 /\ BCmp(BShl(diff, k), my) <= 0

\* costo + utilidad + impuesto_valor, added left to right.
SumaComponentes(r) == FAdd(FAdd(r.df_precio[1], r.df_precio[2]), r.df_precio[3])

\* The simulator's inputs are in their ranges, its prices follow the formula
\* (to within the rounding of the float operations), the components are
\* unit_cost, net - unit_cost and final - net, the table is as loaded.
SimulatorFormula ==
    /\ ~IsNa(sim)
    /\ LET r == sim[1]
       IN  /\ r.costo_unitario >= 0
           /\ r.margen_deseado \in 0..100
           /\ r.impuesto >= 0
           /\ Cerca(r.precio_final,
                    r.costo_unitario * (100 + r.margen_deseado)
                        * (100 + r.impuesto), 10000, 50)
           /\ Cerca(r.precio_neto,
                    r.costo_unitario * (100 + r.margen_deseado), 100, 50)
           /\ r.df_precio = <<FFromInt(r.costo_unitario),
                              FSub(r.precio_neto, FFromInt(r.costo_unitario)),
                              FSub(r.precio_final, r.precio_neto)>>
           /\ r.metric_precio_final = fmt_clp(<<r.precio_final>>)
    /\ pc = "tab2" => df_main = Loaded

\* C10 as stated: the simulator's final price is unit_cost x (1 + margin/100)
\* x (1 + tax/100) of its three inputs, whichever table is loaded; the table
\* is not modified; the three displayed components unit_cost,
\* net - unit_cost and final - net sum to the final price.
C10_ComponentsSumExactly ==
    pc \in {"tab2", "tab3", "done"} =>
        /\ SimulatorFormula
        /\ SumaComponentes(sim[1]) = sim[1].precio_final

\* C10 as amended: as stated, except that the three components sum to the
\* final price exactly when the tax is at most 100 %, and to within one
\* float rounding of it for a larger tax.
C10_PriceSimulator ==
    pc \in {"tab2", "tab3", "done"} =>
        /\ SimulatorFormula
        /\ sim[1].impuesto <= 100 => SumaComponentes(sim[1]) = sim[1].precio_final
        /\ CercaF(SumaComponentes(sim[1]), sim[1].precio_final, 52)

\* C10 witness: the simulator ran on an uploaded table with cost 9, margin
\* 30 and tax 150, where the components add up to one rounding above the
\* final price.
C10_Witness ==
    /\ pc = "tab2" /\ Uploaded
    /\ Len(df_main.rows) >= 1
    /\ sim[1].costo_unitario = 9
    /\ sim[1].margen_deseado = 30
    /\ sim[1].impuesto = 150
    /\ SumaComponentes(sim[1]) # sim[1].precio_final

=============================================================================
